---- MODULE Spec2Model ----
(***************************************************************************)
(* Gap analysis and learning-path search of the EduOntology gap algorithm  *)
(* (src/gap-algorithm/GapAnalyzer.ts, src/gap-algorithm/PathFinder.ts).    *)
(*                                                                         *)
(* Numbers.  Mastery is kept in tenths (0..10 stands for 0.0..1.0).  The   *)
(* JavaScript doubles of the source are modelled by exact arithmetic on    *)
(* scaled integers and on fractions [num, den]:                            *)
(*   - GapAnalyzer costs, g/f scores and its heuristic are kept times 2;   *)
(*   - PathFinder costs, g/f scores and its heuristic are kept times 20;   *)
(*   - gap scores and confidences are fractions num/den with den > 0.      *)
(***************************************************************************)
EXTENDS Integers, Sequences, FiniteSets, TLC

(***************************************************************************)
(* Bounds of the model                                                     *)
(***************************************************************************)
\* ids of the snapshot, in the order the caller passes the nodes
NodeOrder == <<"A", "B", "C">>
NodeIds == {NodeOrder[i] : i \in 1..Len(NodeOrder)}
\* longest prerequisites list of a node
MaxPrereqs == 2
\* total number of prerequisite references in a snapshot
MaxEdges == 2
\* (difficulty, layer) pairs a node may take in the analyses of Spec and in
\* the path searches of SpecPF
Levels ==
  { [difficulty |-> 1, layer |-> "L1"], [difficulty |-> 2, layer |-> "L1"],
    [difficulty |-> 5, layer |-> "L2"], [difficulty |-> 10, layer |-> "L3"] }
PathLevels ==
  { [difficulty |-> 2, layer |-> "L1"], [difficulty |-> 5, layer |-> "L2"],
    [difficulty |-> 8, layer |-> "L3"] }
\* mastery values (tenths) a progress entry may take
MasteryValues == {0, 9}
\* currentLevel hints tried by analyzeGap; 0 stands for "not given"
LevelHints == {0, 2}
\* values of options.maxPathLength and options.confidenceThreshold (tenths)
MaxPathLengths == {0, 20}
ConfidenceThresholds == {0, 5}
\* largest number of loop iterations after which a time limit is seen to expire
MaxTimedIterations == 1
\* longest list of target ids given to analyzeMultipleGaps on a drawn snapshot
MaxTargets == 2

(***************************************************************************)
(* Constants of the source                                                 *)
(***************************************************************************)
MASTERY_THRESHOLD == 8
Infinity == 1000000
\* .slice(0, 10) of mostCommonGaps
MostCommonLimit == 10
LAYER_WEIGHTS ==
  [ L1 |-> [L1 |-> 0, L2 |-> 30, L3 |-> 60],
    L2 |-> [L1 |-> 30, L2 |-> 0, L3 |-> 30],
    L3 |-> [L1 |-> 60, L2 |-> 30, L3 |-> 0] ]

(***************************************************************************)
(* Generic helpers                                                         *)
(***************************************************************************)
Range(s) == {s[i] : i \in 1..Len(s)}
Abs(x) == IF x < 0 THEN 0 - x ELSE x
Max(a, b) == IF a < b THEN b ELSE a
Min(a, b) == IF a < b THEN a ELSE b
Last(s) == s[Len(s)]
NoDup(s) == \A i, j \in 1..Len(s) : i # j => s[i] # s[j]
SeqsUpTo(S, n) == UNION {[1..k -> S] : k \in 0..n}

RECURSIVE SumSeq(_)
SumSeq(s) == IF s = <<>> THEN 0 ELSE Head(s) + SumSeq(Tail(s))

\* fractions
Frac(n, d) == [num |-> n, den |-> d]
FracLess(a, b) == a.num * b.den < b.num * a.den
FracLeq(a, b) == a.num * b.den <= b.num * a.den
FracEq(a, b) == a.num * b.den = b.num * a.den

VARIABLES
  nodes,        \* id -> [difficulty, layer, prerequisites] of the snapshot
  index,        \* ids of the snapshot in insertion order (keys of this.nodes)
  userProgress, \* id -> mastery in tenths (0 where the map has no entry)
  targetNodeId, \* argument of analyzeGap
  currentLevel, \* optional argument of analyzeGap (0: not given)
  ga,           \* the analyzeGap call in progress and its result
  fromNodeId,   \* arguments of PathFinder.findOptimalPath
  toNodeId,
  options,      \* [maxPathLength, includeAlternatives, confidenceThreshold]
  pf,           \* the findOptimalPath call in progress and its result
  batch         \* the analyzeMultipleGaps or collectGapMetrics call in progress

vars == <<nodes, index, userProgress, targetNodeId, currentLevel, ga,
          fromNodeId, toNodeId, options, pf, batch>>

\* what a single analyzeGap or findOptimalPath call leaves alone: the data the
\* objects were built with, the arguments, and the enclosing call over a list
\* of targets
inputs == <<nodes, index, userProgress, targetNodeId, currentLevel, batch>>
pfVars == <<fromNodeId, toNodeId, options, pf>>

IndexSet == Range(index)
has(id) == id \in IndexSet
\* progress.get(id) || 0
masteryIn(progress, id) == IF id \in DOMAIN progress THEN progress[id] ELSE 0
mastery(id) == masteryIn(userProgress, id)

(***************************************************************************)
(* GapAnalyzer: pure parts                                                 *)
(***************************************************************************)
\* Array.prototype.sort with comparator a.key - b.key (stable), on a sequence
\* of records with an integer field key.
RECURSIVE InsertByKey(_, _)
InsertByKey(sorted, x) ==
  IF sorted = <<>> THEN <<x>>
  ELSE IF Last(sorted).key <= x.key THEN Append(sorted, x)
  ELSE Append(InsertByKey(SubSeq(sorted, 1, Len(sorted) - 1), x), Last(sorted))

RECURSIVE SortByKey(_)
SortByKey(s) ==
  IF s = <<>> THEN <<>>
  ELSE InsertByKey(SortByKey(SubSeq(s, 1, Len(s) - 1)), Last(s))

Keyed(ids, key(_)) == [i \in 1..Len(ids) |-> [key |-> key(ids[i]), id |-> ids[i]]]
Unkeyed(recs) == [i \in 1..Len(recs) |-> recs[i].id]

SelectIds(ids, Test(_)) == SelectSeq(ids, Test)

determineCurrentLevel(hint) ==
  LET candidates == SelectIds(index, LAMBDA id : Abs(nodes[id].difficulty - hint) <= 1)
      byMastery == Unkeyed(SortByKey(Keyed(candidates, LAMBDA id : 0 - mastery(id))))
      masteredNodes == {id \in DOMAIN userProgress : userProgress[id] >= MASTERY_THRESHOLD}
      lowNodes == SelectIds(index, LAMBDA id : nodes[id].difficulty <= 3)
      difficultyOf(id) == IF has(id) THEN nodes[id].difficulty ELSE 0
      RECURSIVE SumDiff(_)
      SumDiff(S) == IF S = {} THEN 0
                    ELSE LET x == CHOOSE y \in S : TRUE
                         IN difficultyOf(x) + SumDiff(S \ {x})
      total == SumDiff(masteredNodes)
      count == Cardinality(masteredNodes)
      \* |difficulty - total/count| <= 1
      nearAvg == SelectIds(index, LAMBDA id : Abs(nodes[id].difficulty * count - total) <= count)
  IN IF hint # 0 /\ candidates # <<>> THEN byMastery[1]
     ELSE IF masteredNodes = {} THEN (IF lowNodes = <<>> THEN "" ELSE lowNodes[1])
     ELSE IF nearAvg = <<>> THEN "" ELSE nearAvg[1]

\* Math.min(100, (difficultyDiff / 10) * 100)
calculateDifficultyGap(from, to) ==
  Min(100, (nodes[to].difficulty - nodes[from].difficulty) * 10)

\* the same with the two branches of the test mistaken for one another
PrerequisiteGapSumOfSatisfied(prereqs, progress) ==
  SumSeq([i \in 1..Len(prereqs) |->
            IF masteryIn(progress, prereqs[i]) >= MASTERY_THRESHOLD
            THEN (10 - masteryIn(progress, prereqs[i])) * 10
            ELSE 0])

\* numerator of the prerequisite gap over Len(prerequisites): the sum of
\* (1 - mastery) * 100 over the prerequisites below the threshold
PrerequisiteGapSum(prereqs, progress) ==
  SumSeq([i \in 1..Len(prereqs) |->
            IF masteryIn(progress, prereqs[i]) >= MASTERY_THRESHOLD THEN 0
            ELSE (10 - masteryIn(progress, prereqs[i])) * 10])

calculatePrerequisiteGap(to, progress) ==
  LET prereqs == nodes[to].prerequisites
  IN IF Len(prereqs) = 0 THEN Frac(0, 1)
     ELSE Frac(PrerequisiteGapSum(prereqs, progress), Len(prereqs))

calculateLayerGap(from, to) == LAYER_WEIGHTS[nodes[from].layer][nodes[to].layer]

\* the same without the division by 3
GapScoreWithoutThird(from, to, progress) ==
  LET pg == calculatePrerequisiteGap(to, progress)
      num == (2 * calculateDifficultyGap(from, to) + calculateLayerGap(from, to)) * pg.den
             + 2 * pg.num
      den == 5 * pg.den
  IN Frac(Min(100 * den, Max(0, num)), den)

\* (difficultyGap * 0.4 + prerequisiteGap * 0.4 + layerGap * 0.2) / 3, clamped
\* to [0, 100]; as a fraction over 15 * Len(prerequisites).  progress is the
\* mastery map the analyzer was built with.
GapScoreWith(from, to, progress) ==
  LET pg == calculatePrerequisiteGap(to, progress)
      num == (2 * calculateDifficultyGap(from, to) + calculateLayerGap(from, to)) * pg.den
             + 2 * pg.num
      den == 15 * pg.den
  IN Frac(Min(100 * den, Max(0, num)), den)

\* the same when a prerequisite id that is not in the index counts as met
calculateGapScoreOverIndex(from, to) ==
  GapScoreWith(from, to, [id \in DOMAIN nodes |-> IF has(id) THEN mastery(id) ELSE 10])

calculateGapScore(from, to) == GapScoreWith(from, to, userProgress)

\* the same without the final sort
findMissingPrerequisitesUnsorted(to) ==
  SelectIds(nodes[to].prerequisites, LAMBDA p : mastery(p) < MASTERY_THRESHOLD /\ has(p))

findMissingPrerequisites(to) ==
  LET missing == SelectIds(nodes[to].prerequisites,
                           LAMBDA p : mastery(p) < MASTERY_THRESHOLD /\ has(p))
  IN Unkeyed(SortByKey(Keyed(missing, LAMBDA p : nodes[p].difficulty)))

getNeighbors(node) ==
  LET prereqs == SelectIds(nodes[node].prerequisites, has)
      dependents == SelectIds(index, LAMBDA o : node \in Range(nodes[o].prerequisites))
  IN SelectIds(prereqs \o dependents, LAMBDA n : n # node)

\* Math.abs(toNode.difficulty - fromNode.difficulty), times 2
heuristicGA(from, to) ==
  IF ~has(from) \/ ~has(to) THEN 0
  ELSE 2 * Abs(nodes[to].difficulty - nodes[from].difficulty)

\* |difficulty difference| * 10 + layer weight + (1 - mastery) * 5, times 2
calculateTransitionCostGA(from, to) ==
  20 * Abs(nodes[to].difficulty - nodes[from].difficulty)
  + 2 * LAYER_WEIGHTS[nodes[from].layer][nodes[to].layer]
  + (10 - mastery(from))

\* first entry with a score strictly below every earlier one
RECURSIVE LowestFrom(_, _, _, _)
LowestFrom(openSet, i, lowestScore, lowestNode) ==
  IF i > Len(openSet) THEN lowestNode
  ELSE IF openSet[i].score < lowestScore
       THEN LowestFrom(openSet, i + 1, openSet[i].score, openSet[i].id)
       ELSE LowestFrom(openSet, i + 1, lowestScore, lowestNode)

findLowestFScoreGA(openSet) == LowestFrom(openSet, 1, Infinity, "")

\* the same without the start node
findMinimalPathWithoutStart(from, to) ==
  IF ~has(to) THEN <<>> ELSE findMissingPrerequisites(to) \o <<to>>

findMinimalPath(from, to) ==
  IF ~has(to) THEN <<>>
  ELSE (IF has(from) THEN <<from>> ELSE <<>>) \o findMissingPrerequisites(to) \o <<to>>

\* sum of difficulty * 15 * (1 - mastery * 0.5), times 20
calculateEstimatedTime(path) ==
  SumSeq([i \in 1..Len(path) |-> nodes[path[i]].difficulty * 15 * (20 - mastery(path[i]))])

\* the same without the division by 2
calculateConfidenceSum(gapScore, missingCount) ==
  Frac(Max(0, 100 * gapScore.den - gapScore.num)
       + Max(0, 100 - missingCount * 10) * gapScore.den,
       gapScore.den)

\* (max(0, 100 - gapScore) + max(0, 100 - missingCount * 10)) / 2
calculateConfidence(gapScore, missingCount) ==
  Frac(Max(0, 100 * gapScore.den - gapScore.num)
       + Max(0, 100 - missingCount * 10) * gapScore.den,
       2 * gapScore.den)

(***************************************************************************)
(* GapAnalyzer: analyses of a list of targets                              *)
(***************************************************************************)
RECURSIVE GCD(_, _)
GCD(a, b) == IF b = 0 THEN a ELSE GCD(b, a % b)

\* the sum of two fractions over the least common denominator
FracAdd(a, b) ==
  LET den == (a.den \div GCD(a.den, b.den)) * b.den
  IN Frac(a.num * (den \div a.den) + b.num * (den \div b.den), den)

RECURSIVE FracSum(_)
FracSum(s) == IF s = <<>> THEN Frac(0, 1) ELSE FracAdd(Head(s), FracSum(Tail(s)))

determineGapLevel(gapScore) ==
  IF gapScore.num <= 33 * gapScore.den THEN "low"
  ELSE IF gapScore.num <= 66 * gapScore.den THEN "medium"
  ELSE "high"

\* estimatedTime is in minutes times 20: timeHours <= 1 is estimatedTime <= 1200
determinePriority(gapScore, estimatedTime) ==
  IF gapScore.num >= 80 * gapScore.den \/ estimatedTime <= 1200 THEN "immediate"
  ELSE IF gapScore.num >= 50 * gapScore.den \/ estimatedTime <= 3600 THEN "short-term"
  ELSE "long-term"

\* Math.round(totalTime * 0.3), (* 0.6), (* 0.1), in minutes
breakdownTime(path) ==
  LET totalTime == calculateEstimatedTime(path)
  IN [ prerequisites |-> (3 * totalTime + 100) \div 200,
       mainContent |-> (6 * totalTime + 100) \div 200,
       review |-> (totalTime + 100) \div 200 ]

\* currentNode?.id || 'unknown'
getCurrentNodeId(level) ==
  LET currentNode == determineCurrentLevel(level)
  IN IF currentNode = "" THEN "unknown" ELSE currentNode

\* lines 111-121: the detail built from the result of analyzeGap(targetId)
GapAnalysisDetail(targetId, level, result) ==
  [ nodeId |-> getCurrentNodeId(level),
    targetNodeId |-> targetId,
    gapScore |-> result.gapScore,
    gapLevel |-> determineGapLevel(result.gapScore),
    priority |-> determinePriority(result.gapScore, result.estimatedTime),
    missingPrerequisites |-> result.missingPrerequisites,
    recommendedPath |-> result.recommendedPath,
    estimatedTime |-> result.estimatedTime,
    timeBreakdown |-> breakdownTime(result.recommendedPath) ]

\* Array.prototype.sort with comparator b.gapScore - a.gapScore (stable)
RECURSIVE InsertByGapScore(_, _)
InsertByGapScore(sorted, x) ==
  IF sorted = <<>> THEN <<x>>
  ELSE IF FracLeq(x.gapScore, Last(sorted).gapScore) THEN Append(sorted, x)
  ELSE Append(InsertByGapScore(SubSeq(sorted, 1, Len(sorted) - 1), x), Last(sorted))

\* the same with the comparator a.gapScore - b.gapScore
RECURSIVE sortByGapScoreAscending(_)
sortByGapScoreAscending(details) ==
  IF details = <<>> THEN <<>>
  ELSE LET rest == sortByGapScoreAscending(Tail(details))
       IN IF rest = <<>> \/ FracLeq(Head(details).gapScore, Head(rest).gapScore)
          THEN <<Head(details)>> \o rest
          ELSE <<Head(rest)>> \o sortByGapScoreAscending(<<Head(details)>> \o Tail(rest))

RECURSIVE InsertAllByGapScore(_, _)
InsertAllByGapScore(sorted, details) ==
  IF details = <<>> THEN sorted
  ELSE InsertAllByGapScore(InsertByGapScore(sorted, Head(details)), Tail(details))

\* line 121
sortByGapScore(details) == InsertAllByGapScore(<<>>, details)

\* the keys of gapCounts, in the order of their insertion (lines 135-142)
RECURSIVE CountedTargets(_)
CountedTargets(analyses) ==
  IF analyses = <<>> THEN <<>>
  ELSE LET before == CountedTargets(SubSeq(analyses, 1, Len(analyses) - 1))
           id == Last(analyses).targetNodeId
       IN IF id \in Range(before) THEN before ELSE Append(before, id)

GapCount(analyses, id) ==
  Cardinality({i \in 1..Len(analyses) : analyses[i].targetNodeId = id})

\* analyses.find(a => a.targetNodeId === nodeId)?.gapScore || 0
FirstGapScore(analyses, id) ==
  LET found == SelectSeq(analyses, LAMBDA a : a.targetNodeId = id)
  IN IF found = <<>> THEN Frac(0, 1) ELSE found[1].gapScore

\* lines 145-151 before the slice: one entry per counted target, sorted by
\* gapCount, largest first (stable)
CommonGaps(analyses) ==
  LET counted == CountedTargets(analyses)
      entries == [i \in 1..Len(counted) |->
                    [ key |-> 0 - GapCount(analyses, counted[i]),
                      nodeId |-> counted[i],
                      gapScore |-> FirstGapScore(analyses, counted[i]),
                      gapCount |-> GapCount(analyses, counted[i]) ]]
      sorted == SortByKey(entries)
  IN [i \in 1..Len(sorted) |->
        [ nodeId |-> sorted[i].nodeId, gapScore |-> sorted[i].gapScore,
          gapCount |-> sorted[i].gapCount ]]

\* the number of analyses of a gap level
LevelCount(analyses, level) ==
  Cardinality({i \in 1..Len(analyses) : analyses[i].gapLevel = level})

\* the same without the slice
collectGapMetricsUnsliced(analyses) ==
  LET totalGapScore == FracSum([i \in 1..Len(analyses) |-> analyses[i].gapScore])
  IN [ totalGapScore |-> totalGapScore,
       averageGapScore |-> Frac(totalGapScore.num, totalGapScore.den * Len(analyses)),
       gapDistribution |-> [ low |-> LevelCount(analyses, "low"),
                             medium |-> LevelCount(analyses, "medium"),
                             high |-> LevelCount(analyses, "high") ],
       mostCommonGaps |-> CommonGaps(analyses) ]

\* lines 130-158 on the analyses that analyzeMultipleGaps returned; the
\* average over no analyses is 0 / 0
collectGapMetrics(analyses) ==
  LET totalGapScore == FracSum([i \in 1..Len(analyses) |-> analyses[i].gapScore])
      common == CommonGaps(analyses)
  IN [ totalGapScore |-> totalGapScore,
       averageGapScore |-> Frac(totalGapScore.num, totalGapScore.den * Len(analyses)),
       gapDistribution |-> [ low |-> LevelCount(analyses, "low"),
                             medium |-> LevelCount(analyses, "medium"),
                             high |-> LevelCount(analyses, "high") ],
       mostCommonGaps |-> SubSeq(common, 1, Min(MostCommonLimit, Len(common))) ]

(***************************************************************************)
(* GapAnalyzer.findOptimalPath: the loop body over the neighbours          *)
(***************************************************************************)
InOpen(openSet, id) == \E i \in 1..Len(openSet) : openSet[i].id = id

\* gScore.get(id) || Infinity
GScoreOrInfinity(s, id) == IF s.gScore[id] = 0 THEN Infinity ELSE s.gScore[id]

RECURSIVE RelaxNeighbors(_, _, _)
RelaxNeighbors(s, current, neighbors) ==
  IF neighbors = <<>> THEN s
  ELSE LET nb == Head(neighbors)
           tentativeGScore == s.gScore[current] + calculateTransitionCostGA(current, nb)
           f == tentativeGScore + heuristicGA(nb, targetNodeId)
           s2 == IF tentativeGScore < GScoreOrInfinity(s, nb)
                 THEN [s EXCEPT !.cameFrom[nb] = current,
                                !.gScore[nb] = tentativeGScore,
                                !.fScore[nb] = f,
                                !.openSet = IF InOpen(@, nb) THEN @
                                            ELSE Append(@, [id |-> nb, score |-> f])]
                 ELSE s
       IN RelaxNeighbors(s2, current, Tail(neighbors))

(***************************************************************************)
(* PathFinder: pure parts.  A LearningNode is the record LearningNode(id); *)
(* a PathNode is [node, gScore, hScore, fScore, previous], where node is   *)
(* the id of its LearningNode and previous the id of the PathNode it was   *)
(* reached from ("" for null).  A PathNode is only ever the previous of    *)
(* another one after it has been taken out of the open set, and is never   *)
(* replaced after that, so the id names the object.                        *)
(***************************************************************************)
LearningNode(id) ==
  [ id |-> id, difficulty |-> nodes[id].difficulty, layer |-> nodes[id].layer,
    prerequisites |-> nodes[id].prerequisites ]

PathNode(id, g, h, prev) ==
  [node |-> id, gScore |-> g, hScore |-> h, fScore |-> g + h, previous |-> prev]

PathResult(path, cost, time, conf) ==
  [path |-> path, totalCost |-> cost, totalTime |-> time, confidence |-> conf]

NoResult == PathResult(<<>>, 0, 0, Frac(0, 1))

layerOrder == [L1 |-> 1, L2 |-> 2, L3 |-> 3]
getLayerDistance(layer1, layer2) == Abs(layerOrder[layer2] - layerOrder[layer1])

\* linear mode with the default weights (difficultyWeight 1, layerWeight 1,
\* masteryBonus 0.5), times 20
heuristic(from, to) ==
  IF ~has(from) \/ ~has(to) THEN 0
  ELSE 20 * Abs(nodes[to].difficulty - nodes[from].difficulty)
       + 20 * getLayerDistance(nodes[from].layer, nodes[to].layer)
       - (mastery(from) - mastery(to))

\* The outcome of a call that may throw.
Returned(v) == [raised |-> FALSE, value |-> v]
Raised == [raised |-> TRUE, value |-> 0]

\* Times 20.  fromNode.prerequisites.includes(...) throws a TypeError when
\* the object passed as fromNode has no prerequisites property, which is the
\* case of a PathNode.
calculateTransitionCost(fromNode, toNode) ==
  IF "prerequisites" \notin DOMAIN fromNode THEN Raised
  ELSE Returned(
         100 * Max(0, toNode.difficulty - fromNode.difficulty)
         + 200 * getLayerDistance(fromNode.layer, toNode.layer)
         + 10 * (10 - mastery(fromNode.id))
         + (IF toNode.id \in Range(fromNode.prerequisites) THEN 0 ELSE 300))

\* difficultyDiff <= 1 + (1 - mastery) * 2, times 10; progress is the mastery
\* map the path finder was built with
ValidNeighborsWith(node, closedSet, progress) ==
  LET prereqs == SelectIds(nodes[node].prerequisites,
                           LAMBDA p : has(p) /\ p \notin closedSet)
      dependents == SelectIds(index, LAMBDA o : /\ o # node
                                                /\ o \notin closedSet
                                                /\ node \in Range(nodes[o].prerequisites))
  IN SelectIds(prereqs \o dependents,
               LAMBDA n : 10 * Abs(nodes[n].difficulty - nodes[node].difficulty)
                            <= 30 - 2 * masteryIn(progress, node))

getValidNeighbors(node, closedSet) == ValidNeighborsWith(node, closedSet, userProgress)

\* the open node with the lowest fScore, the earliest inserted among equals
RECURSIVE LowestPathNode(_, _, _)
LowestPathNode(openSet, i, best) ==
  IF i > Len(openSet) THEN best
  ELSE IF openSet[i].fScore < openSet[best].fScore
       THEN LowestPathNode(openSet, i + 1, i)
       ELSE LowestPathNode(openSet, i + 1, best)

findLowestFScore(openSet) == openSet[LowestPathNode(openSet, 2, 1)]

\* sum of difficulty * 15 * (1 - mastery * 0.5), times 20
calculateTotalTime(path) ==
  SumSeq([i \in 1..Len(path) |-> nodes[path[i]].difficulty * 15 * (20 - mastery(path[i]))])

\* the same without the division by the number of steps
calculatePathConfidenceTotal(path) ==
  IF Len(path) <= 1 THEN Frac(0, 1)
  ELSE Frac(SumSeq([i \in 1..(Len(path) - 1) |->
                      (IF nodes[path[i + 1]].difficulty <= 2 * nodes[path[i]].difficulty
                       THEN 8 ELSE 5)
                      + (IF mastery(path[i]) >= 7 THEN 2 ELSE 0)]),
            10)

\* per step 0.8 (0.5 when the difficulty more than doubles) plus 0.2 when the
\* step starts from a node mastered at 0.7 or more; the average over the steps
calculatePathConfidence(path) ==
  IF Len(path) <= 1 THEN Frac(0, 1)
  ELSE Frac(SumSeq([i \in 1..(Len(path) - 1) |->
                      (IF nodes[path[i + 1]].difficulty <= 2 * nodes[path[i]].difficulty
                       THEN 8 ELSE 5)
                      + (IF mastery(path[i]) >= 7 THEN 2 ELSE 0)]),
            10 * (Len(path) - 1))

\* walks the previous pointers from current back to the start
RECURSIVE PathTo(_, _)
PathTo(settled, pathNode) ==
  IF pathNode.previous = "" THEN <<pathNode.node>>
  ELSE Append(PathTo(settled, settled[pathNode.previous]), pathNode.node)

\* the same with the time of the path in the place of its cost
buildPathResultCostFromTime(settled, current) ==
  LET path == PathTo(settled, current)
  IN PathResult(path, calculateTotalTime(path), calculateTotalTime(path),
                calculatePathConfidence(path))

buildPathResult(settled, current) ==
  LET path == PathTo(settled, current)
  IN PathResult(path, current.gScore, calculateTotalTime(path), calculatePathConfidence(path))

\* the same with the missing prerequisites of the target between the two
buildFallbackPathViaPrerequisites(from, to) ==
  IF ~has(from) \/ ~has(to) THEN NoResult
  ELSE PathResult(<<from>> \o findMissingPrerequisites(to) \o <<to>>,
                  2000, 2400, Frac(3, 10))

\* cost 100 and time 120, both times 20; confidence 0.3
buildFallbackPath(from, to) ==
  IF ~has(from) \/ ~has(to) THEN NoResult
  ELSE PathResult(<<from, to>>, 2000, 2400, Frac(3, 10))

buildPathFromNodeList(pathNodes) ==
  PathResult(pathNodes,
             SumSeq([i \in 1..(Len(pathNodes) - 1) |->
                       calculateTransitionCost(LearningNode(pathNodes[i]),
                                               LearningNode(pathNodes[i + 1])).value]),
             calculateTotalTime(pathNodes),
             calculatePathConfidence(pathNodes))

(***************************************************************************)
(* PathFinder.aStar.  The state of one call is a record: the open set in   *)
(* insertion order, the closed set, the PathNodes taken out of the open    *)
(* set (settled), how often each id was moved to the closed set, and the   *)
(* status: "running", "goal" (line 138), "fallback" (line 175), "null"     *)
(* (line 112) or "raised" (an exception left the call).  The map cameFrom  *)
(* of the source is written and never read, and is left out.               *)
(***************************************************************************)
NoPathNode == PathNode("", 0, 0, "")

\* lines 104-124
aStarInit(from, to) ==
  [ from |-> from, to |-> to,
    status |-> IF ~has(from) \/ ~has(to) THEN "null" ELSE "running",
    openSet |-> IF ~has(from) \/ ~has(to) THEN <<>>
                ELSE <<PathNode(from, 0, heuristic(from, to), "")>>,
    closedSet |-> {},
    settled |-> [id \in DOMAIN nodes |-> NoPathNode],
    expansions |-> [id \in DOMAIN nodes |-> 0],
    result |-> NoResult ]

OpenIds(openSet) == {openSet[i].node : i \in 1..Len(openSet)}

\* Map.set: a present key keeps its place, a new key goes last
OpenSetPut(openSet, pathNode) ==
  IF pathNode.node \in OpenIds(openSet)
  THEN [i \in 1..Len(openSet) |->
          IF openSet[i].node = pathNode.node THEN pathNode ELSE openSet[i]]
  ELSE Append(openSet, pathNode)

\* lines 150-171; current is the PathNode taken from the open set
RECURSIVE RelaxValidNeighbors(_, _, _)
RelaxValidNeighbors(st, current, neighbors) ==
  IF neighbors = <<>> THEN st
  ELSE LET nb == Head(neighbors)
           cost == calculateTransitionCost(current, LearningNode(nb))
           tentativeGScore == current.gScore + cost.value
           existing == SelectSeq(st.openSet, LAMBDA e : e.node = nb)
       IN IF nb \in st.closedSet THEN RelaxValidNeighbors(st, current, Tail(neighbors))
          ELSE IF cost.raised THEN [st EXCEPT !.status = "raised"]
          ELSE IF existing = <<>> \/ tentativeGScore < existing[1].gScore
          THEN RelaxValidNeighbors(
                 [st EXCEPT !.openSet =
                    OpenSetPut(@, PathNode(nb, tentativeGScore,
                                           heuristic(nb, st.to), current.node))],
                 current, Tail(neighbors))
          ELSE RelaxValidNeighbors(st, current, Tail(neighbors))

\* the same without openSet.delete on the way to the closed set
aStarIterationKeepsOpen(st, maxPathLength) ==
  LET current == findLowestFScore(st.openSet)
      rest == SelectSeq(st.openSet, LAMBDA e : e.node # current.node)
  IN IF current.node = st.to
     THEN [st EXCEPT !.openSet = rest, !.status = "goal",
                     !.result = buildPathResult(st.settled, current)]
     ELSE IF Cardinality(st.closedSet) >= maxPathLength
     THEN [st EXCEPT !.openSet = rest, !.status = "fallback",
                     !.result = buildFallbackPath(st.from, st.to)]
     ELSE LET closed == st.closedSet \cup {current.node}
          IN RelaxValidNeighbors(
               [st EXCEPT !.closedSet = closed,
                          !.settled[current.node] = current,
                          !.expansions[current.node] = @ + 1],
               current, getValidNeighbors(current.node, closed))

\* one pass through the body of the while loop, lines 128-171
aStarIteration(st, maxPathLength) ==
  LET current == findLowestFScore(st.openSet)
      rest == SelectSeq(st.openSet, LAMBDA e : e.node # current.node)
  IN IF current.node = st.to
     THEN [st EXCEPT !.openSet = rest, !.status = "goal",
                     !.result = buildPathResult(st.settled, current)]
     ELSE IF Cardinality(st.closedSet) >= maxPathLength
     THEN [st EXCEPT !.openSet = rest, !.status = "fallback",
                     !.result = buildFallbackPath(st.from, st.to)]
     ELSE LET closed == st.closedSet \cup {current.node}
          IN RelaxValidNeighbors(
               [st EXCEPT !.openSet = rest,
                          !.closedSet = closed,
                          !.settled[current.node] = current,
                          !.expansions[current.node] = @ + 1],
               current, getValidNeighbors(current.node, closed))

\* the loop condition of line 127 is false: line 175
aStarExit(st) ==
  [st EXCEPT !.status = "fallback", !.result = buildFallbackPath(st.from, st.to)]

\* A whole aStar call.  budget is the number of times the loop condition
\* still finds the time limit not reached (Infinity: it is never reached).
RECURSIVE aStarRun(_, _, _)
aStarRun(st, maxPathLength, budget) ==
  IF st.status # "running" THEN [st |-> st, budget |-> budget]
  ELSE IF st.openSet = <<>> \/ budget = 0 THEN [st |-> aStarExit(st), budget |-> budget]
  ELSE aStarRun(aStarIteration(st, maxPathLength), maxPathLength,
                IF budget = Infinity THEN Infinity ELSE budget - 1)

(***************************************************************************)
(* PathFinder: the alternative strategies.  A strategy returns a sequence  *)
(* holding its PathResult, or the empty sequence for null.                 *)
(***************************************************************************)
isSuitableIntermediate(node, target) ==
  heuristic(node, target) < heuristic("start", node)

averageConfidence(c1, c2) == Frac(c1.num * c2.den + c2.num * c1.den, 2 * c1.den * c2.den)

\* lines 244-261; an exception of aStar is caught and the next candidate
\* tried.  The two searches share startTime and the halved time limit.
RECURSIVE tryIntermediates(_, _, _, _, _)
tryIntermediates(candidates, from, to, maxPathLength, budget) ==
  IF candidates = <<>> THEN <<>>
  ELSE LET mid == Head(candidates)
           r1 == aStarRun(aStarInit(from, mid), maxPathLength, budget)
           r2 == aStarRun(aStarInit(mid, to), maxPathLength, r1.budget)
           path1 == r1.st.result
           path2 == r2.st.result
       IN IF r1.st.status = "raised"
          THEN tryIntermediates(Tail(candidates), from, to, maxPathLength, r1.budget)
          ELSE IF r2.st.status = "raised"
          THEN tryIntermediates(Tail(candidates), from, to, maxPathLength, r2.budget)
          ELSE IF r1.st.status # "null" /\ r2.st.status # "null"
          THEN << PathResult(path1.path \o Tail(path2.path),
                             path1.totalCost + path2.totalCost,
                             path1.totalTime + path2.totalTime,
                             averageConfidence(path1.confidence, path2.confidence)) >>
          ELSE tryIntermediates(Tail(candidates), from, to, maxPathLength, r2.budget)

\* lines 229-242: the candidates that are tried, in the order of the trials
intermediateNodes(from, to) ==
  LET suitable == SelectIds(index, LAMBDA n : /\ n # from
                                              /\ n # to
                                              /\ isSuitableIntermediate(n, to))
      sorted == Unkeyed(SortByKey(Keyed(suitable,
                  LAMBDA a : heuristic(from, a) + heuristic(a, to))))
  IN SubSeq(sorted, 1, Min(3, Len(sorted)))

findViaIntermediate(from, to, maxPathLength, budget) ==
  IF ~has(to) THEN <<>>
  ELSE tryIntermediates(intermediateNodes(from, to), from, to, maxPathLength, budget)

getOptimalLayerSequence(startLayer, endLayer) ==
  LET s == layerOrder[startLayer]
      e == layerOrder[endLayer]
      name == <<"L1", "L2", "L3">>
  IN IF s <= e THEN [i \in 1..(e - s + 1) |-> name[s + i - 1]]
     ELSE [i \in 1..(s - e + 1) |-> name[s - i + 1]]

\* the first node of the candidates with the lowest transition cost from last
RECURSIVE bestBridge(_, _, _, _)
bestBridge(last, candidates, bestNode, bestCost) ==
  IF candidates = <<>> THEN bestNode
  ELSE LET cost == calculateTransitionCost(LearningNode(last),
                                           LearningNode(Head(candidates))).value
       IN IF cost < bestCost THEN bestBridge(last, Tail(candidates), Head(candidates), cost)
          ELSE bestBridge(last, Tail(candidates), bestNode, bestCost)

RECURSIVE layerWalk(_, _)
layerWalk(currentPath, layers) ==
  IF layers = <<>> THEN currentPath
  ELSE LET bridgeNodes == SelectIds(index, LAMBDA n : /\ nodes[n].layer = Head(layers)
                                                      /\ n # Last(currentPath))
       IN IF bridgeNodes = <<>> THEN layerWalk(currentPath, Tail(layers))
          ELSE layerWalk(Append(currentPath,
                                bestBridge(Last(currentPath), bridgeNodes, "", Infinity)),
                         Tail(layers))

findViaLayerTransition(from, to) ==
  IF ~has(from) \/ ~has(to) THEN <<>>
  ELSE LET walked == layerWalk(<<from>>,
                               getOptimalLayerSequence(nodes[from].layer, nodes[to].layer))
       IN << buildPathFromNodeList(IF Last(walked) # to THEN Append(walked, to)
                                   ELSE walked) >>

\* max(0, min(1, startDiff / totalDiff)) times |totalDiff|; every node has the
\* same progress 0.5 when totalDiff is 0
calculateProgress(node, start, end) ==
  LET startDiff == nodes[node].difficulty - nodes[start].difficulty
      totalDiff == nodes[end].difficulty - nodes[start].difficulty
  IN IF totalDiff = 0 THEN 0
     ELSE IF totalDiff > 0 THEN Max(0, Min(totalDiff, startDiff))
     ELSE Max(0, Min(0 - totalDiff, 0 - startDiff))

\* lines 345-355; a transition cost of at most 20 is 400 when times 20
RECURSIVE progressionWalk(_, _, _)
progressionWalk(path, sortedNodes, maxPathLength) ==
  IF sortedNodes = <<>> THEN path
  ELSE LET node == Head(sortedNodes)
       IN IF node \in Range(path) \/ Len(path) >= maxPathLength
          THEN progressionWalk(path, Tail(sortedNodes), maxPathLength)
          ELSE IF calculateTransitionCost(LearningNode(Last(path)),
                                          LearningNode(node)).value <= 400
          THEN progressionWalk(Append(path, node), Tail(sortedNodes), maxPathLength)
          ELSE progressionWalk(path, Tail(sortedNodes), maxPathLength)

findViaDifficultyProgression(from, to, maxPathLength) ==
  IF ~has(from) \/ ~has(to) THEN <<>>
  ELSE LET near == SelectIds(index, LAMBDA n :
                     /\ Abs(nodes[n].difficulty - nodes[from].difficulty) <= 3
                     /\ Abs(nodes[n].difficulty - nodes[to].difficulty) <= 3)
           sortedNodes == Unkeyed(SortByKey(Keyed(near,
                            LAMBDA n : 0 - calculateProgress(n, from, to))))
           path == progressionWalk(<<from>>, sortedNodes, maxPathLength)
       IN << buildPathFromNodeList(IF Last(path) # to THEN Append(path, to) ELSE path) >>

\* lines 181-213; each strategy takes its own startTime
findAlternativePaths(from, to, maxPathLength, budget) ==
  IF ~has(to) THEN <<>>
  ELSE findViaIntermediate(from, to, maxPathLength, budget)
       \o findViaLayerTransition(from, to)
       \o findViaDifficultyProgression(from, to, maxPathLength)

(***************************************************************************)
(* PathFinder.selectBestPath and the result of findOptimalPath             *)
(***************************************************************************)
\* the comparator of lines 585-594 is negative for (a, b)
ComesBefore(a, b) ==
  IF ~FracEq(a.confidence, b.confidence) THEN FracLess(b.confidence, a.confidence)
  ELSE IF a.totalCost # b.totalCost THEN a.totalCost < b.totalCost
  ELSE a.totalTime < b.totalTime

\* stable sort of positions of paths by the comparator
RECURSIVE InsertPath(_, _, _)
InsertPath(paths, sorted, i) ==
  IF sorted = <<>> THEN <<i>>
  ELSE IF ComesBefore(paths[i], paths[Last(sorted)])
       THEN Append(InsertPath(paths, SubSeq(sorted, 1, Len(sorted) - 1), i), Last(sorted))
       ELSE Append(sorted, i)

RECURSIVE SortPaths(_, _)
SortPaths(paths, positions) ==
  IF positions = <<>> THEN <<>>
  ELSE InsertPath(paths, SortPaths(paths, SubSeq(positions, 1, Len(positions) - 1)),
                  Last(positions))

\* the same without the sort: the first path that passes the threshold
selectBestPathFirstPassing(paths, confidenceThreshold) ==
  IF paths = <<>> THEN 0
  ELSE LET passing == SelectSeq([i \in 1..Len(paths) |-> i],
                                LAMBDA i : paths[i].confidence.num * 10
                                             >= confidenceThreshold * paths[i].confidence.den)
       IN IF passing = <<>> THEN 1 ELSE passing[1]

\* the position in paths of the selected path, 0 for null; the threshold is
\* in tenths
selectBestPath(paths, confidenceThreshold) ==
  IF paths = <<>> THEN 0
  ELSE LET passing == SelectSeq([i \in 1..Len(paths) |-> i],
                                LAMBDA i : paths[i].confidence.num * 10
                                             >= confidenceThreshold * paths[i].confidence.den)
           sorted == SortPaths(paths, passing)
       IN IF sorted = <<>> THEN 1 ELSE sorted[1]

\* the same with the alternatives filtered by comparing the node lists
findOptimalPathResultByPathValue(mainPath, alternatives, confidenceThreshold) ==
  LET allPaths == mainPath \o alternatives
      best == selectBestPath(allPaths, confidenceThreshold)
      bestPath == IF best = 0 THEN NoResult ELSE allPaths[best]
      others == SelectSeq([i \in 1..Len(allPaths) |-> i],
                          LAMBDA i : allPaths[i].path # bestPath.path)
  IN [ path |-> bestPath.path, totalCost |-> bestPath.totalCost,
       totalTime |-> bestPath.totalTime, confidence |-> bestPath.confidence,
       alternativePaths |-> [i \in 1..Len(others) |-> allPaths[others[i]].path] ]

\* lines 66-91
findOptimalPathResult(mainPath, alternatives, confidenceThreshold) ==
  LET allPaths == mainPath \o alternatives
      best == selectBestPath(allPaths, confidenceThreshold)
      bestPath == IF best = 0 THEN NoResult ELSE allPaths[best]
      others == SelectSeq([i \in 1..Len(allPaths) |-> i], LAMBDA i : i # best)
  IN [ path |-> bestPath.path, totalCost |-> bestPath.totalCost,
       totalTime |-> bestPath.totalTime, confidence |-> bestPath.confidence,
       alternativePaths |-> [i \in 1..Len(others) |-> allPaths[others[i]].path] ]

(***************************************************************************)
(* Initial states: a snapshot, a mastery map and the arguments of a call   *)
(***************************************************************************)
NoLevel == [difficulty |-> 1, layer |-> "L1"]
NoPath == <<>>
NoFrac == Frac(0, 1)

GaIdle ==
  [ pc |-> "idle", error |-> "", currentNode |-> "", gapScore |-> NoFrac,
    missingPrerequisites |-> <<>>, openSet |-> <<>>,
    cameFrom |-> [id \in DOMAIN nodes |-> ""],
    gScore |-> [id \in DOMAIN nodes |-> Infinity],
    fScore |-> [id \in DOMAIN nodes |-> Infinity], node |-> "", path |-> NoPath,
    recommendedPath |-> NoPath, estimatedTime |-> 0, confidence |-> NoFrac ]

PrereqLists(id) ==
  {s \in SeqsUpTo(NodeIds \ {id}, MaxPrereqs) : NoDup(s)}

Snapshots(k, levels) ==
  LET present == {NodeOrder[i] : i \in 1..k}
      lists == {pr \in [present -> SeqsUpTo(NodeIds, MaxPrereqs)] :
                  /\ \A id \in present : pr[id] \in PrereqLists(id)
                  /\ SumSeq([i \in 1..k |-> Len(pr[NodeOrder[i]])]) <= MaxEdges}
  IN { [id \in NodeIds |->
          IF id \in present
          THEN [difficulty |-> lv[id].difficulty, layer |-> lv[id].layer,
                prerequisites |-> pr[id]]
          ELSE [difficulty |-> NoLevel.difficulty, layer |-> NoLevel.layer,
                prerequisites |-> <<>>]] : lv \in [present -> levels], pr \in lists }

InitInputs(levels) ==
  \* ids outside the snapshot are dangling references
  /\ \E k \in 1..Len(NodeOrder) :
       /\ index = SubSeq(NodeOrder, 1, k)
       /\ nodes \in Snapshots(k, levels)
  /\ userProgress \in [NodeIds -> MasteryValues]

DefaultOptions ==
  [maxPathLength |-> 20, includeAlternatives |-> FALSE, confidenceThreshold |-> 5]

NoFinalResult ==
  [ path |-> <<>>, totalCost |-> 0, totalTime |-> 0, confidence |-> NoFrac,
    alternativePaths |-> <<>> ]

PfIdle ==
  [ pc |-> "idle", search |-> aStarInit("", ""), mainPath |-> <<>>,
    allPaths |-> <<>>, result |-> NoFinalResult ]

TimeBudgets == (0..MaxTimedIterations) \cup {Infinity}

NoMetrics ==
  [ totalGapScore |-> NoFrac, averageGapScore |-> NoFrac,
    gapDistribution |-> [low |-> 0, medium |-> 0, high |-> 0],
    mostCommonGaps |-> <<>> ]

\* no call over a list of targets
BatchIdle ==
  [ pc |-> "idle", call |-> "", targetNodeIds |-> <<>>, position |-> 0,
    details |-> <<>>, metrics |-> NoMetrics ]

\* analyzeGap on any snapshot, then findOptimalPath from the resolved current
\* node to the target with the default options
Init ==
  /\ InitInputs(Levels)
  /\ targetNodeId \in NodeIds
  /\ currentLevel \in LevelHints
  /\ ga = GaIdle
  /\ fromNodeId = ""
  /\ toNodeId = ""
  /\ options = DefaultOptions
  /\ pf = PfIdle
  /\ batch = BatchIdle

\* findOptimalPath on any snapshot with any endpoints and options; the options
\* includeAlternatives and confidenceThreshold are drawn where the call first
\* reads them (lines 71 and 83)
InitPF ==
  /\ InitInputs(PathLevels)
  \* a snapshot that lists its nodes by difficulty, and a mastery map without
  \* entries for ids that are not in the snapshot (PathFinder never reads them)
  /\ \A id \in NodeIds \ IndexSet : userProgress[id] = 0
  /\ \A i \in 1..(Len(index) - 1) :
       nodes[index[i]].difficulty <= nodes[index[i + 1]].difficulty
  /\ targetNodeId = ""
  /\ currentLevel = 0
  /\ ga = GaIdle
  /\ fromNodeId \in NodeIds
  /\ toNodeId \in NodeIds
  /\ options \in [maxPathLength : MaxPathLengths, includeAlternatives : {FALSE},
                   confidenceThreshold : {DefaultOptions.confidenceThreshold}]
  /\ pf = PfIdle
  /\ batch = BatchIdle

(***************************************************************************)
(* analyzeGap, step by step                                                *)
(***************************************************************************)
\* the same without the lookup of the target
analyzeGapErrorWithoutLookup(target, level) ==
  IF determineCurrentLevel(level) = "" THEN "Could not determine current level"
  ELSE ""

\* lines 67-76: the message of the error analyzeGap throws, "" when it
\* throws none
analyzeGapError(target, level) ==
  IF ~has(target) THEN "Target node not found"
  ELSE IF determineCurrentLevel(level) = "" THEN "Could not determine current level"
  ELSE ""

\* lines 66-85 and the initialisation of findOptimalPath (lines 296-309)
AnalyzeGapStart ==
  /\ ga.pc = "idle"
  /\ pf.pc = "idle"
  /\ targetNodeId # ""
  /\ LET currentNode == determineCurrentLevel(currentLevel)
         error == analyzeGapError(targetNodeId, currentLevel)
     IN ga' =
          IF error # ""
          THEN [ga EXCEPT !.pc = "error", !.error = error]
          ELSE [ga EXCEPT
                  !.pc = "search",
                  !.currentNode = currentNode,
                  !.gapScore = calculateGapScore(currentNode, targetNodeId),
                  !.missingPrerequisites = findMissingPrerequisites(targetNodeId),
                  !.gScore = [id \in DOMAIN nodes |-> IF id = currentNode THEN 0 ELSE Infinity],
                  !.fScore = [id \in DOMAIN nodes |->
                                IF id = currentNode
                                THEN heuristicGA(currentNode, targetNodeId) ELSE Infinity],
                  !.openSet = <<[id |-> currentNode,
                                 score |-> heuristicGA(currentNode, targetNodeId)]>>]
  /\ UNCHANGED <<inputs, pfVars>>

\* one iteration of the while loop of findOptimalPath (lines 311-338), or its
\* exit to findMinimalPath (line 341)
SearchStepGA(s) ==
  IF s.openSet = <<>>
  THEN [s EXCEPT !.pc = "built",
                 !.recommendedPath = findMinimalPath(s.currentNode, targetNodeId)]
  ELSE LET current == findLowestFScoreGA(s.openSet)
       IN IF current = targetNodeId
          THEN [s EXCEPT !.pc = "reconstruct", !.node = current, !.path = <<>>]
          ELSE RelaxNeighbors(
                 [s EXCEPT !.openSet = SelectSeq(@, LAMBDA e : e.id # current)],
                 current, getNeighbors(current))

AnalyzeGapSearch ==
  /\ ga.pc = "search"
  /\ ga' = SearchStepGA(ga)
  /\ UNCHANGED <<inputs, pfVars>>

\* one iteration of the while loop of reconstructPath (lines 403-407).  The
\* back-pointers do not change during the walk, so a walk that comes back to
\* a node it has already put on the path never leaves the loop: the call does
\* not return (pc "diverged").
ReconstructStep(s) ==
  IF s.node = ""
  THEN [s EXCEPT !.pc = "built", !.recommendedPath = s.path]
  ELSE IF s.node \in Range(s.path)
  THEN [s EXCEPT !.pc = "diverged"]
  ELSE [s EXCEPT !.path = <<s.node>> \o @, !.node = s.cameFrom[s.node]]

AnalyzeGapReconstruct ==
  /\ ga.pc = "reconstruct"
  /\ ga' = ReconstructStep(ga)
  /\ UNCHANGED <<inputs, pfVars>>

\* lines 88-97
AnalyzeGapReturn ==
  /\ ga.pc = "built"
  /\ ga' = [ga EXCEPT
              !.pc = "done",
              !.estimatedTime = calculateEstimatedTime(ga.recommendedPath),
              !.confidence = calculateConfidence(ga.gapScore, Len(ga.missingPrerequisites))]
  /\ UNCHANGED <<inputs, pfVars>>

(***************************************************************************)
(* findOptimalPath, step by step                                           *)
(***************************************************************************)
\* the status of the primary search decides where the call goes on: line 66
\* for a result or null, out of the call for an exception
AfterSearch(st) ==
  IF st.status = "running" THEN "astar"
  ELSE IF st.status = "raised" THEN "raised"
  ELSE "select"

MainPathOf(st) == IF st.status \in {"goal", "fallback"} THEN <<st.result>> ELSE <<>>

\* lines 53-64 and the initialisation of aStar
BeginFindOptimalPath ==
  LET st == aStarInit(fromNodeId, toNodeId)
  IN pf' = [pf EXCEPT !.pc = AfterSearch(st), !.search = st, !.mainPath = MainPathOf(st)]

FindOptimalPathStart ==
  /\ pf.pc = "idle"
  /\ ga.pc = "idle"
  /\ BeginFindOptimalPath
  /\ UNCHANGED <<inputs, ga, fromNodeId, toNodeId, options>>

\* the path search of an analysis that has returned, run on PathFinder
FindPathForAnalysis ==
  /\ pf.pc = "idle"
  /\ ga.pc = "done"
  /\ fromNodeId' = ga.currentNode
  /\ toNodeId' = targetNodeId
  /\ LET st == aStarInit(ga.currentNode, targetNodeId)
     IN pf' = [pf EXCEPT !.pc = AfterSearch(st), !.search = st, !.mainPath = MainPathOf(st)]
  /\ UNCHANGED <<inputs, ga, options>>

\* one iteration of the loop of aStar
AStarStep ==
  /\ pf.pc = "astar"
  /\ pf.search.openSet # <<>>
  /\ LET st == aStarIteration(pf.search, options.maxPathLength)
     IN pf' = [pf EXCEPT !.pc = AfterSearch(st), !.search = st, !.mainPath = MainPathOf(st)]
  /\ UNCHANGED <<inputs, ga, fromNodeId, toNodeId, options>>

\* the loop ends on an empty open set
AStarExhausted ==
  /\ pf.pc = "astar"
  /\ pf.search.openSet = <<>>
  /\ LET st == aStarExit(pf.search)
     IN pf' = [pf EXCEPT !.pc = AfterSearch(st), !.search = st, !.mainPath = MainPathOf(st)]
  /\ UNCHANGED <<inputs, ga, fromNodeId, toNodeId, options>>

\* the loop ends because performance.now() - startTime has reached timeLimit,
\* which may be at any evaluation of the loop condition
AStarTimeLimit ==
  /\ pf.pc = "astar"
  /\ pf.search.openSet # <<>>
  /\ LET st == aStarExit(pf.search)
     IN pf' = [pf EXCEPT !.pc = AfterSearch(st), !.search = st, !.mainPath = MainPathOf(st)]
  /\ UNCHANGED <<inputs, ga, fromNodeId, toNodeId, options>>

\* lines 71-80; budget is the clock of the via-intermediate strategy
AlternativesOf(opts, budget) ==
  IF opts.includeAlternatives
  THEN findAlternativePaths(fromNodeId, toNodeId, opts.maxPathLength, budget)
  ELSE <<>>

\* lines 66-91 under the given options
ReturnPath(opts, alternatives) ==
  /\ options' = opts
  /\ pf' = [pf EXCEPT
              !.pc = "done",
              !.allPaths = pf.mainPath \o alternatives,
              !.result = findOptimalPathResult(pf.mainPath, alternatives,
                                               opts.confidenceThreshold)]

FindOptimalPathReturn ==
  /\ pf.pc = "select"
  /\ ga.pc = "idle"
  /\ \E includeAlternatives \in BOOLEAN :
       \E budget \in IF includeAlternatives THEN TimeBudgets ELSE {Infinity} :
         LET opts == [options EXCEPT !.includeAlternatives = includeAlternatives]
             alternatives == AlternativesOf(opts, budget)
         IN \E confidenceThreshold \in ConfidenceThresholds :
              ReturnPath([opts EXCEPT !.confidenceThreshold = confidenceThreshold],
                         alternatives)
  /\ UNCHANGED <<inputs, ga, fromNodeId, toNodeId>>

\* the same for the path search of an analysis: the default options
ReturnPathForAnalysis ==
  /\ pf.pc = "select"
  /\ ga.pc = "done"
  /\ ReturnPath(options, AlternativesOf(options, Infinity))
  /\ UNCHANGED <<inputs, ga, fromNodeId, toNodeId>>

Next ==
  \/ AnalyzeGapStart
  \/ AnalyzeGapSearch
  \/ AnalyzeGapReconstruct
  \/ AnalyzeGapReturn
  \/ FindPathForAnalysis
  \/ AStarStep
  \/ AStarExhausted
  \/ AStarTimeLimit
  \/ ReturnPathForAnalysis

Spec == Init /\ [][Next]_vars

NextPF ==
  \/ FindOptimalPathStart
  \/ AStarStep
  \/ AStarExhausted
  \/ AStarTimeLimit
  \/ FindOptimalPathReturn

SpecPF == InitPF /\ [][NextPF]_vars

(***************************************************************************)
(* analyzeMultipleGaps and collectGapMetrics, one analyzeGap call at a     *)
(* time                                                                    *)
(***************************************************************************)
BatchLevels ==
  { [difficulty |-> 1, layer |-> "L1"], [difficulty |-> 5, layer |-> "L2"] }

\* a snapshot of more nodes than mostCommonGaps may hold, with difficulties
\* 1..10 over the three layers; the hardest node has an unmet prerequisite,
\* no other node has prerequisites
WideOrder ==
  <<"N01", "N02", "N03", "N04", "N05", "N06", "N07", "N08", "N09", "N10", "N11">>
WideIds == Range(WideOrder)
WideNodes ==
  [id \in WideIds |->
     LET i == CHOOSE j \in 1..Len(WideOrder) : WideOrder[j] = id
     IN [ difficulty |-> ((i - 1) % 10) + 1,
          layer |-> IF i <= 4 THEN "L1" ELSE IF i <= 8 THEN "L2" ELSE "L3",
          prerequisites |-> IF i = 10 THEN <<WideOrder[2]>> ELSE <<>> ]]
\* every node once, and the same with the last node named twice more
WideTargetLists == {WideOrder, WideOrder \o <<Last(WideOrder), Last(WideOrder)>>}

InitBatch ==
  /\ \/ /\ InitInputs(BatchLevels)
        /\ currentLevel \in LevelHints
        /\ \E ids \in SeqsUpTo(NodeIds, MaxTargets) :
             batch = [BatchIdle EXCEPT !.targetNodeIds = ids]
     \/ /\ index = WideOrder
        /\ nodes = WideNodes
        /\ userProgress = [id \in WideIds |-> 0]
        /\ currentLevel = 0
        /\ \E ids \in WideTargetLists :
             batch = [BatchIdle EXCEPT !.targetNodeIds = ids]
  /\ targetNodeId = ""
  /\ ga = GaIdle
  /\ fromNodeId = ""
  /\ toNodeId = ""
  /\ options = DefaultOptions
  /\ pf = PfIdle

\* line 121, and for collectGapMetrics lines 130-158 after it
FinishBatch(b, details) ==
  LET sorted == sortByGapScore(details)
  IN [b EXCEPT !.pc = "returned",
               !.details = sorted,
               !.metrics = IF b.call = "collectGapMetrics"
                           THEN collectGapMetrics(sorted) ELSE NoMetrics]

\* line 107: the map starts with the first target id, or ends at once
BeginBatch(call) ==
  LET b == [batch EXCEPT !.call = call]
  IN IF b.targetNodeIds = <<>>
     THEN /\ batch' = FinishBatch(b, <<>>)
          /\ targetNodeId' = targetNodeId
     ELSE /\ batch' = [b EXCEPT !.pc = "map", !.position = 1]
          /\ targetNodeId' = b.targetNodeIds[1]

AnalyzeMultipleGapsStart ==
  /\ batch.pc = "idle"
  /\ ga.pc = "idle"
  /\ BeginBatch("analyzeMultipleGaps")
  /\ UNCHANGED <<nodes, index, userProgress, currentLevel, ga, pfVars>>

\* line 128: analyzeMultipleGaps is called without a current level
CollectGapMetricsStart ==
  /\ batch.pc = "idle"
  /\ ga.pc = "idle"
  /\ BeginBatch("collectGapMetrics")
  /\ currentLevel' = 0
  /\ UNCHANGED <<nodes, index, userProgress, ga, pfVars>>

\* the detail of the analysis that has just returned
ReturnedDetail ==
  GapAnalysisDetail(targetNodeId, currentLevel, ga)

\* lines 108-120, and on to the next target id
AnalyzeMultipleGapsNext ==
  /\ batch.pc = "map"
  /\ ga.pc = "done"
  /\ batch.position < Len(batch.targetNodeIds)
  /\ batch' = [batch EXCEPT !.details = Append(@, ReturnedDetail),
                            !.position = @ + 1]
  /\ targetNodeId' = batch.targetNodeIds[batch.position + 1]
  /\ ga' = GaIdle
  /\ UNCHANGED <<nodes, index, userProgress, currentLevel, pfVars>>

\* lines 108-121 for the last target id
AnalyzeMultipleGapsReturn ==
  /\ batch.pc = "map"
  /\ batch.call = "analyzeMultipleGaps"
  /\ ga.pc = "done"
  /\ batch.position = Len(batch.targetNodeIds)
  /\ batch' = FinishBatch(batch, Append(batch.details, ReturnedDetail))
  /\ UNCHANGED <<nodes, index, userProgress, targetNodeId, currentLevel, ga, pfVars>>

\* the same within collectGapMetrics, and lines 130-158
CollectGapMetricsReturn ==
  /\ batch.pc = "map"
  /\ batch.call = "collectGapMetrics"
  /\ ga.pc = "done"
  /\ batch.position = Len(batch.targetNodeIds)
  /\ batch' = FinishBatch(batch, Append(batch.details, ReturnedDetail))
  /\ UNCHANGED <<nodes, index, userProgress, targetNodeId, currentLevel, ga, pfVars>>

\* line 108: an error of analyzeGap leaves the map and the enclosing call
AnalyzeMultipleGapsRaise ==
  /\ batch.pc = "map"
  /\ ga.pc = "error"
  /\ batch' = [batch EXCEPT !.pc = "raised"]
  /\ UNCHANGED <<nodes, index, userProgress, targetNodeId, currentLevel, ga, pfVars>>

NextBatch ==
  \/ AnalyzeMultipleGapsStart
  \/ CollectGapMetricsStart
  \/ AnalyzeGapStart
  \/ AnalyzeGapSearch
  \/ AnalyzeGapReconstruct
  \/ AnalyzeGapReturn
  \/ AnalyzeMultipleGapsNext
  \/ AnalyzeMultipleGapsReturn
  \/ CollectGapMetricsReturn
  \/ AnalyzeMultipleGapsRaise

SpecBatch == InitBatch /\ [][NextBatch]_vars

(***************************************************************************)
(* The scenario of the documentation: A(1, L1) <- B(5, L2) <- C(10, L3)    *)
(***************************************************************************)
ChainNodes ==
  /\ index = NodeOrder
  /\ nodes = [id \in NodeIds |->
               IF id = "A" THEN [difficulty |-> 1, layer |-> "L1", prerequisites |-> <<>>]
               ELSE IF id = "B" THEN [difficulty |-> 5, layer |-> "L2", prerequisites |-> <<"A">>]
               ELSE [difficulty |-> 10, layer |-> "L3", prerequisites |-> <<"B">>]]

MasteryA == [id \in NodeIds |-> IF id = "A" THEN 9 ELSE 0]
MasteryAB == [id \in NodeIds |-> IF id = "C" THEN 0 ELSE 9]

(***************************************************************************)
(* Properties of analyzeGap (Spec) and of findOptimalPath (SpecPF)         *)
(***************************************************************************)
\* analyzeGap has resolved a current node and computed score and prerequisites
Analysed == ga.pc \notin {"idle", "error"}
TargetPrerequisites == Range(nodes[targetNodeId].prerequisites)
SortedByDifficulty(ids) ==
  \A i \in 1..(Len(ids) - 1) : nodes[ids[i]].difficulty <= nodes[ids[i + 1]].difficulty

\* C1: whenever the target is in the index and a current node resolves,
\* analyzeGap terminates and returns a non-empty recommendedPath that starts
\* at the resolved current node and ends at the target.
C1_AnalyzeGapReturnsPath ==
  /\ ga.pc # "diverged"
  /\ ga.pc = "done" =>
       /\ ga.recommendedPath # <<>>
       /\ Head(ga.recommendedPath) = ga.currentNode
       /\ Last(ga.recommendedPath) = targetNodeId

\* C2: the primary A* loop of findOptimalPath ends on every snapshot, cyclic
\* prerequisites included: no id is moved to the closed set more than once, no
\* closed id is in the open set, and only ids of the index are ever closed,
\* so the loop makes at most as many passes as the index has nodes, plus one.
C2_ClosedSetDiscipline ==
  /\ \A id \in NodeIds : pf.search.expansions[id] <= 1
  /\ pf.search.closedSet \cap OpenIds(pf.search.openSet) = {}
  /\ pf.search.closedSet = {id \in IndexSet : pf.search.expansions[id] = 1}

C2_CyclicSearchEnds ==
  /\ nodes["A"].prerequisites = <<"B">>
  /\ nodes["B"].prerequisites = <<"A">>
  /\ fromNodeId = "A"
  /\ toNodeId = "B"
  /\ pf.search.closedSet = {"A"}
  /\ pf.pc = "done"

\* C3: for endpoints that are both in the index, findOptimalPath never raises
\* and returns a non-empty path from the from node to the to node, whatever
\* the options and whenever the time limit expires.
C3_NeverRaises ==
  (has(fromNodeId) /\ has(toNodeId)) =>
    /\ pf.pc # "raised"
    /\ pf.pc = "done" =>
         /\ pf.result.path # <<>>
         /\ Head(pf.result.path) = fromNodeId
         /\ Last(pf.result.path) = toNodeId

\* C4: findOptimalPath(x, x, options) returns the path [x] with totalCost 0
\* for every x of the index and every options value.
C4_SameNodeSinglePath ==
  (has(fromNodeId) /\ fromNodeId = toNodeId /\ pf.pc = "done") =>
    /\ pf.result.path = <<fromNodeId>>
    /\ pf.result.totalCost = 0

LowMastery == {0, 5, 7}
HighMastery == {8, 10}
WithMastery(p, v) == [userProgress EXCEPT ![p] = v]

\* C6: for the current node and the target of an analysis, raising the
\* mastery of one prerequisite of the target from below 0.8 to at least 0.8,
\* every other entry unchanged, never increases the gap score; in particular
\* not the score the analysis has computed with that prerequisite below 0.8.
C6_RaisingMasteryNeverRaisesGap ==
  Analysed =>
    \A p \in TargetPrerequisites : \A lo \in LowMastery, hi \in HighMastery :
      /\ FracLeq(GapScoreWith(ga.currentNode, targetNodeId, WithMastery(p, hi)),
                 GapScoreWith(ga.currentNode, targetNodeId, WithMastery(p, lo)))
      /\ mastery(p) < MASTERY_THRESHOLD =>
           FracLeq(GapScoreWith(ga.currentNode, targetNodeId, WithMastery(p, hi)),
                   ga.gapScore)

C6_RaisedMasteryLowersGap ==
  /\ ga.pc = "done"
  /\ \E p \in TargetPrerequisites \cap IndexSet :
       /\ mastery(p) < MASTERY_THRESHOLD
       /\ FracLess(GapScoreWith(ga.currentNode, targetNodeId, WithMastery(p, 8)),
                   ga.gapScore)

\* C7: on the chain A(1, L1) <- B(5, L2) <- C(10, L3), analyzeGap('C') under
\* mastery {A: 0.9, B: 0.9} returns, and its gapScore is strictly lower than
\* the gap score of C under mastery {A: 0.9} (current node A).
C7_ChainGapLowerWithB ==
  (ChainNodes /\ userProgress = MasteryAB /\ targetNodeId = "C" /\ currentLevel = 0
   /\ ga.pc # "idle") =>
    /\ ga.pc \notin {"error", "diverged"}
    /\ Analysed => FracLess(ga.gapScore, GapScoreWith("A", "C", MasteryA))

\* C8: the missingPrerequisites an analysis returns holds, once each, exactly
\* the ids of target.prerequisites that are in the index and have mastery
\* below 0.8, in order of non-decreasing difficulty.
C8_MissingPrerequisitesExactAndSorted ==
  ga.pc = "done" =>
    /\ Range(ga.missingPrerequisites)
         = {p \in TargetPrerequisites \cap IndexSet : mastery(p) < MASTERY_THRESHOLD}
    /\ NoDup(ga.missingPrerequisites)
    /\ SortedByDifficulty(ga.missingPrerequisites)

C8_TwoMissingReordered ==
  /\ ga.pc = "done"
  /\ Len(ga.missingPrerequisites) = 2
  /\ Len(nodes[targetNodeId].prerequisites) = 2
  /\ ga.missingPrerequisites[1] = nodes[targetNodeId].prerequisites[2]
  /\ nodes[ga.missingPrerequisites[1]].difficulty
       < nodes[ga.missingPrerequisites[2]].difficulty

\* the primary search has left its loop without reaching the goal
LeftWithoutGoal ==
  /\ pf.pc \in {"select", "done"}
  /\ has(fromNodeId)
  /\ has(toNodeId)
  /\ pf.search.status # "goal"

\* C9 as stated: whenever the primary search leaves its loop without reaching
\* the goal, the fallback path is the start node, the target's missing
\* prerequisites in ascending difficulty, and the target, with confidence 0.3.
C9_FallbackViaMissingPrerequisites ==
  LeftWithoutGoal =>
    /\ pf.search.result.path
         = <<fromNodeId>> \o findMissingPrerequisites(toNodeId) \o <<toNodeId>>
    /\ FracEq(pf.search.result.confidence, Frac(3, 10))

\* C9, amended: whenever the primary search leaves its loop without reaching
\* the goal, its result is the two-node path [start, target] with confidence
\* 0.3, totalCost 100 and totalTime 120 (both times 20 here), whatever
\* prerequisites of the target are missing; it is what findOptimalPath returns
\* when no alternatives are asked for.
C9_FallbackIsStartAndTarget ==
  LeftWithoutGoal =>
    /\ pf.search.status = "fallback"
    /\ pf.search.result.path = <<fromNodeId, toNodeId>>
    /\ FracEq(pf.search.result.confidence, Frac(3, 10))
    /\ pf.search.result.totalCost = 2000
    /\ pf.search.result.totalTime = 2400
    /\ (pf.pc = "done" /\ ~options.includeAlternatives) =>
         /\ pf.result.path = <<fromNodeId, toNodeId>>
         /\ FracEq(pf.result.confidence, Frac(3, 10))

C9_FallbackSkipsMissingPrerequisite ==
  /\ LeftWithoutGoal
  /\ pf.pc = "done"
  /\ ~options.includeAlternatives
  /\ findMissingPrerequisites(toNodeId) # <<>>
  /\ fromNodeId \notin Range(findMissingPrerequisites(toNodeId))
  /\ pf.result.path = <<fromNodeId, toNodeId>>

\* analyzeGap and the findOptimalPath call on its current node and target
\* have both returned
BothReturned == ga.pc = "done" /\ pf.pc = "done"

LeastOf(S) == CHOOSE x \in S : \A y \in S : x <= y

\* the least sum of transition costs (times 20) over the walks of at most
\* steps valid-neighbour transitions from one node to another; Infinity when
\* there is none
RECURSIVE CheapestWithin(_, _, _)
CheapestWithin(from, to, steps) ==
  IF from = to THEN 0
  ELSE IF steps = 0 THEN Infinity
  ELSE LET neighbors == getValidNeighbors(from, {})
       IN LeastOf({Infinity} \cup
            { Min(Infinity,
                  calculateTransitionCost(LearningNode(from),
                                          LearningNode(neighbors[i])).value
                  + CheapestWithin(neighbors[i], to, steps - 1)) :
              i \in 1..Len(neighbors) })

ReachesThreshold(c) ==
  c.confidence.num * 10 >= options.confidenceThreshold * c.confidence.den

\* candidate a is to be preferred to candidate b
Preferred(a, b) ==
  \/ FracLess(b.confidence, a.confidence)
  \/ FracEq(a.confidence, b.confidence) /\ a.totalCost < b.totalCost
  \/ /\ FracEq(a.confidence, b.confidence)
     /\ a.totalCost = b.totalCost
     /\ a.totalTime < b.totalTime

\* the returned PathResult carries the path, cost, time and confidence of c
ReturnedCandidate(c) ==
  /\ pf.result.path = c.path
  /\ pf.result.totalCost = c.totalCost
  /\ pf.result.totalTime = c.totalTime
  /\ pf.result.confidence = c.confidence

Candidates == pf.allPaths
Reaching == {i \in 1..Len(Candidates) : ReachesThreshold(Candidates[i])}

\* C12: findOptimalPath returns, among the candidates (primary result, then
\* the alternatives) that reach confidenceThreshold, one to which no other of
\* them is preferred (higher confidence, then lower totalCost, then lower
\* totalTime); when none reaches the threshold, the first candidate produced.
C12_BestCandidateReturned ==
  (pf.pc = "done" /\ Candidates # <<>>) =>
    IF Reaching = {} THEN ReturnedCandidate(Candidates[1])
    ELSE \E i \in Reaching :
           /\ ReturnedCandidate(Candidates[i])
           /\ \A j \in Reaching : ~Preferred(Candidates[j], Candidates[i])

C12_LaterCandidatePreferred ==
  /\ pf.pc = "done"
  /\ Cardinality(Reaching) >= 2
  /\ 1 \in Reaching
  /\ \E i \in Reaching : Preferred(Candidates[i], Candidates[1])
  /\ ~ReturnedCandidate(Candidates[1])

\* the node lists of the candidates other than the one at position k, in order
PathsExcept(k) ==
  LET others == SelectSeq([i \in 1..Len(Candidates) |-> i], LAMBDA i : i # k)
  IN [i \in 1..Len(others) |-> Candidates[others[i]].path]

\* C13: alternativePaths holds exactly the paths of the produced candidates
\* that were not selected: it is empty when includeAlternatives is false, and
\* otherwise has one entry per produced candidate other than the selected one.
C13_AlternativesAreTheOthers ==
  (pf.pc = "done") =>
    /\ ~options.includeAlternatives => pf.result.alternativePaths = <<>>
    /\ Candidates = <<>> => pf.result.alternativePaths = <<>>
    /\ Candidates # <<>> =>
         \E k \in 1..Len(Candidates) :
           /\ ReturnedCandidate(Candidates[k])
           /\ pf.result.alternativePaths = PathsExcept(k)

C13_AlternativeRepeatsSelectedPath ==
  /\ pf.pc = "done"
  /\ options.includeAlternatives
  /\ Len(pf.result.alternativePaths) >= 2
  /\ pf.result.path \in Range(pf.result.alternativePaths)

\* C14: when the from id or the to id is absent from the index, the path
\* search fails with an error; it does not return a PathResult.
C14_AbsentEndpointRaises ==
  (~has(fromNodeId) \/ ~has(toNodeId)) => pf.pc # "done"

\* C15: analyzeGap raises an error and returns no result whenever the target
\* id is absent from the node index, whatever the mastery map and the hint.
C15_AbsentTargetRaises ==
  (targetNodeId # "" /\ ~has(targetNodeId)) =>
    /\ ga.pc \in {"idle", "error"}
    /\ ga.pc = "error" => ga.error = "Target node not found"
    /\ ga.recommendedPath = NoPath

C15_AbsentTargetWithCurrentLevel ==
  /\ ga.pc = "error"
  /\ ~has(targetNodeId)
  /\ currentLevel # 0
  /\ determineCurrentLevel(currentLevel) # ""
  /\ \E id \in IndexSet : mastery(id) >= MASTERY_THRESHOLD

\* C16: for a target present in the index, analyzeGap fails for want of a
\* current level only if no rule finds a node, the last rule being 'any node
\* with difficulty <= 3': it never fails while the index holds such a node.
C16_FailsOnlyWithoutLowDifficultyNode ==
  (has(targetNodeId) /\ ga.pc = "error") =>
    ~\E id \in IndexSet : nodes[id].difficulty <= 3

Returned17 == batch.pc = "returned" /\ batch.call = "analyzeMultipleGaps"

\* the number of positions of the list of target ids that hold id
TargetCount(id) ==
  Cardinality({i \in 1..Len(batch.targetNodeIds) : batch.targetNodeIds[i] = id})

\* C17: analyzeMultipleGaps returns one detail per element of the list of
\* target ids (same length, same multiset of targetNodeId), each with the
\* gapScore that analyzeGap gives for its id, in order of non-increasing
\* gapScore.
C17_OneDetailPerTargetSorted ==
  Returned17 =>
    LET details == batch.details
    IN /\ Len(details) = Len(batch.targetNodeIds)
       /\ \A id \in DOMAIN nodes : GapCount(details, id) = TargetCount(id)
       /\ \A i \in 1..Len(details) :
            /\ details[i].targetNodeId \in Range(batch.targetNodeIds)
            /\ details[i].gapScore
                 = calculateGapScore(determineCurrentLevel(currentLevel),
                                     details[i].targetNodeId)
       /\ \A i, j \in 1..Len(details) :
            i < j => FracLeq(details[j].gapScore, details[i].gapScore)

C17_DetailsReordered ==
  /\ Returned17
  /\ Len(batch.details) >= 2
  /\ batch.details[1].targetNodeId # batch.targetNodeIds[1]
  /\ FracLess(batch.details[2].gapScore, batch.details[1].gapScore)

Returned18 == batch.pc = "returned" /\ batch.call = "collectGapMetrics"

\* the number of analyses whose gapScore is above low and at most high
ScoresWithin(low, high) ==
  Cardinality({i \in 1..Len(batch.details) :
                 /\ batch.details[i].gapScore.num > low * batch.details[i].gapScore.den
                 /\ batch.details[i].gapScore.num <= high * batch.details[i].gapScore.den})

\* C18: in the metrics that collectGapMetrics returns, every analysis is
\* counted in exactly one bucket (low for a gapScore of at most 33, medium for
\* at most 66, high above), so the three counts add up to the number of
\* target ids, and mostCommonGaps has at most 10 entries.
C18_BucketsPartitionAndTopTen ==
  Returned18 =>
    LET d == batch.metrics.gapDistribution
    IN /\ d.low = ScoresWithin(-1, 33)
       /\ d.medium = ScoresWithin(33, 66)
       /\ d.high = ScoresWithin(66, Infinity)
       /\ d.low + d.medium + d.high = Len(batch.targetNodeIds)
       /\ Len(batch.metrics.mostCommonGaps) <= 10

C18_MoreThanTenTargets ==
  /\ Returned18
  /\ Cardinality(Range(batch.targetNodeIds)) > 10
  /\ Len(batch.targetNodeIds) > Cardinality(Range(batch.targetNodeIds))
  /\ Len(batch.metrics.mostCommonGaps) = 10
  /\ batch.metrics.mostCommonGaps[1].gapCount > 1
  /\ batch.metrics.gapDistribution.low = Len(batch.targetNodeIds)

\* C19: every result that analyzeGap returns has a gapScore in [0, 100] and
\* a confidence in [0, 100], for difficulties in 1..10 and masteries in
\* [0, 1].
C19_ScoreAndConfidenceInRange ==
  (ga.pc = "done") =>
    /\ FracLeq(Frac(0, 1), ga.gapScore)
    /\ FracLeq(ga.gapScore, Frac(100, 1))
    /\ FracLeq(Frac(0, 1), ga.confidence)
    /\ FracLeq(ga.confidence, Frac(100, 1))

C19_FullConfidence ==
  /\ ga.pc = "done"
  /\ ga.currentNode # targetNodeId
  /\ FracEq(ga.gapScore, Frac(0, 1))
  /\ FracEq(ga.confidence, Frac(100, 1))

\* C20: the confidence of the result of analyzeGap is greater than 0 and at
\* most 1.
C20_ConfidenceAtMostOne ==
  (ga.pc = "done") =>
    /\ FracLess(Frac(0, 1), ga.confidence)
    /\ FracLeq(ga.confidence, Frac(1, 1))

\* a confidence between 0 and 1, and 0 for a path of a single node
PathConfidenceInRange(c) ==
  /\ FracLeq(Frac(0, 1), c.confidence)
  /\ FracLeq(c.confidence, Frac(1, 1))
  /\ Len(c.path) = 1 => FracEq(c.confidence, Frac(0, 1))

\* C21: the confidence of every PathResult that findOptimalPath returns, and
\* of every candidate it computed (primary result, fallback, each alternative
\* strategy), lies in [0, 1], and is 0 for a path of a single node.
C21_PathConfidenceInUnitRange ==
  /\ pf.pc \in {"select", "done"} =>
       \A i \in 1..Len(pf.mainPath) : PathConfidenceInRange(pf.mainPath[i])
  /\ pf.pc = "done" =>
       /\ \A i \in 1..Len(Candidates) : PathConfidenceInRange(Candidates[i])
       /\ PathConfidenceInRange(pf.result)

C21_SingleNodeAndFullConfidence ==
  /\ pf.pc = "done"
  /\ \E i \in 1..Len(Candidates) : Len(Candidates[i].path) = 1
  /\ \E i \in 1..Len(Candidates) :
       /\ Len(Candidates[i].path) >= 3
       /\ FracEq(Candidates[i].confidence, Frac(1, 1))

\* LearningNode.dependencies: the ids of the nodes that depend on this one.
\* The analyzer never reads the field; the snapshots list there every node
\* that names this one as a prerequisite (a snapshot may list fewer, as the
\* documented data do, which only makes a link between two nodes rarer).
dependencies(id) ==
  SelectSeq(index, LAMBDA o : id \in Range(nodes[o].prerequisites))

\* C22: for every two consecutive nodes u, v of the recommendedPath that
\* analyzeGap returns, u is listed in the prerequisites of v or v is listed
\* in the dependencies of u.
C22_PathStepsArePrerequisiteLinks ==
  (ga.pc = "done") =>
    \A i \in 1..(Len(ga.recommendedPath) - 1) :
      LET u == ga.recommendedPath[i]
          v == ga.recommendedPath[i + 1]
      IN \/ u \in Range(nodes[v].prerequisites)
         \/ v \in Range(dependencies(u))

\* C23: for a fixed graph and node, raising the mastery of the current node
\* never removes a node from the set of its valid neighbours.
C23_RaisedMasteryKeepsNeighbours ==
  (pf.pc # "idle") =>
    \A node \in IndexSet : \A m \in MasteryValues :
      m >= mastery(node) =>
        Range(getValidNeighbors(node, {}))
          \subseteq Range(ValidNeighborsWith(node, {}, [userProgress EXCEPT ![node] = m]))

\* the three nodes other than the endpoints with the smallest
\* heuristic(from, c) + heuristic(c, to)
ThreeNearestOthers(from, to) ==
  LET others == SelectSeq(index, LAMBDA n : n # from /\ n # to)
      sorted == Unkeyed(SortByKey(Keyed(others,
                  LAMBDA a : heuristic(from, a) + heuristic(a, to))))
  IN SubSeq(sorted, 1, Min(3, Len(sorted)))

\* C24: the via-intermediate strategy takes every node other than the two
\* endpoints as a candidate and tries the three of them with the smallest
\* heuristic(from, c) + heuristic(c, to); nothing else excludes a node.
C24_CandidatesAreAllOtherNodes ==
  (pf.pc = "done" /\ options.includeAlternatives /\ has(toNodeId)) =>
    intermediateNodes(fromNodeId, toNodeId) = ThreeNearestOthers(fromNodeId, toNodeId)

\* C25: the difficulty term of the gap score is 0 for a target that is not
\* harder than the current node: with the target, the mastery map and the
\* layers fixed, the gap score is the same from every current node at least as
\* difficult as the target.
C25_SameGapFromEveryHarderNode ==
  (ga.pc = "done"
     /\ nodes[ga.currentNode].difficulty >= nodes[targetNodeId].difficulty) =>
    \A other \in IndexSet :
      (/\ nodes[other].difficulty >= nodes[targetNodeId].difficulty
       /\ nodes[other].layer = nodes[ga.currentNode].layer) =>
        FracEq(calculateGapScore(other, targetNodeId), ga.gapScore)

\* C26: the primary search takes a node out of the open set only while fewer
\* than maxPathLength nodes are closed, so the goal is never returned once
\* maxPathLength nodes are closed, and a path that reaches the goal has at
\* most maxPathLength nodes.
C26_GoalOnlyBelowMaxPathLength ==
  (pf.pc \in {"select", "done"} /\ pf.search.status = "goal") =>
    /\ Cardinality(pf.search.closedSet) < options.maxPathLength
    /\ Len(pf.search.result.path) <= options.maxPathLength

\* the goal can be reached from the start by valid-neighbour transitions
GoalReachable ==
  /\ has(fromNodeId)
  /\ has(toNodeId)
  /\ CheapestWithin(fromNodeId, toNodeId, Cardinality(IndexSet)) < Infinity

\* the primary search has ended on the time limit or on maxPathLength
EndedOnLimit ==
  /\ pf.search.status = "fallback"
  /\ \/ pf.search.openSet # <<>>
     \/ Cardinality(pf.search.closedSet) >= options.maxPathLength

\* C27: if the goal can be reached from the start by valid-neighbour
\* transitions and neither the time limit nor maxPathLength is hit, the primary
\* search ends with a path to the goal whose consecutive nodes are such
\* transitions, never with the fallback.
C27_ReachableGoalIsFound ==
  (GoalReachable /\ pf.pc \notin {"idle", "astar"} /\ ~EndedOnLimit) =>
    /\ pf.search.status = "goal"
    /\ LET path == pf.search.result.path
       IN /\ path # <<>>
          /\ path[1] = fromNodeId
          /\ Last(path) = toNodeId
          /\ \A i \in 1..(Len(path) - 1) :
               path[i + 1] \in Range(getValidNeighbors(path[i], {}))

\* following the back-pointers from node reaches the start node within steps
\* steps; a node without a back-pointer has not been reached by the search
RECURSIVE LeadsToStart(_, _)
LeadsToStart(node, steps) ==
  IF node = ga.currentNode THEN TRUE
  ELSE IF ga.cameFrom[node] = "" THEN FALSE
  ELSE IF steps = 0 THEN FALSE
  ELSE LeadsToStart(ga.cameFrom[node], steps - 1)

\* C28: in every state of the path search of GapAnalyzer the back-pointers
\* are acyclic: the start node never receives a back-pointer, and following
\* the back-pointers from any node that has one reaches the start node in at
\* most as many steps as there are nodes.
C28_BackPointersAcyclic ==
  (ga.pc \in {"search", "reconstruct", "built", "done", "diverged"}) =>
    /\ ga.cameFrom[ga.currentNode] = ""
    /\ \A id \in IndexSet :
         ga.cameFrom[id] # "" => LeadsToStart(id, Cardinality(IndexSet))

\* the priority that the estimated time alone gives
PriorityByTime(estimatedTime) ==
  IF estimatedTime <= 1200 THEN "immediate"
  ELSE IF estimatedTime <= 3600 THEN "short-term"
  ELSE "long-term"

C30_PathsWithoutRepeatedNode ==
  (pf.pc = "done") =>
    /\ NoDup(pf.result.path)
    /\ \A i \in 1..Len(pf.result.alternativePaths) :
         NoDup(pf.result.alternativePaths[i])

====
